---- MODULE Spec2Model ----
(***************************************************************************)
(* ComfyUI-Gallery: the file system monitor (folder_monitor.py) and the    *)
(* tree scanner (folder_scanner.py).                                       *)
(*                                                                         *)
(* A path is a sequence of components and a component (a file or folder   *)
(* name) is a sequence of tokens: "/out/sub/b.gif" is                      *)
(*   << <<"out">>, <<"sub">>, <<"b", ".", "gif">> >>.                      *)
(* Time is counted in ticks of half a second.                              *)
(***************************************************************************)
EXTENDS Naturals, Integers, Sequences, FiniteSets, TLC

VARIABLES
    file_index,        \* module-level dict: relative path -> FileInfo
    pending_changes,   \* self.pending_changes["folders"]: folder key -> filename -> entry
    processed_events,  \* self.processed_events: <<event_type, real_path>> -> time
    debounce_timer,    \* self.debounce_timer: 0 (None) or the id of a Timer
    timers,            \* the threading.Timer objects created so far
    now,               \* time.time(), in ticks
    pc,                \* where the watcher thread is inside on_any_event
    hist,              \* one entry per event delivered to on_any_event; the last
                       \* entry holds the locals of the call in progress
    sent,              \* history: the payloads handed to PromptServer.send_sync
    live,              \* history: tags of the recorded changes no later event replaced
    thread,            \* FileSystemMonitor.thread: 0 (None) or the id of a worker
    workers,           \* the worker threads created so far
    observer,          \* the watchdog observer: its kind, state and subscriptions
    stopped,           \* history: stop_monitoring has stopped the observer and returned
    late,              \* history: what happened after stop_monitoring returned
    tree,              \* round trip: mtime of every file of the tree (0: no such file)
    scanned,           \* round trip: file_index as seeded by FileSystemMonitor.__init__
    replayed,          \* round trip: file_index and processed_events of the replay
    todo               \* round trip: discovered files whose 'created' event is still to be fed

vars == <<file_index, pending_changes, processed_events, debounce_timer, timers, now,
          pc, hist, sent, live, thread, workers, observer, stopped, late,
          tree, scanned, replayed, todo>>

handlerVars == <<file_index, pending_changes, processed_events, debounce_timer, timers,
                 now, pc, hist, sent, live>>
monitorVars == <<thread, workers, observer, stopped, late>>
scanVars == <<tree, scanned, replayed, todo>>

----------------------------------------------------------------------------
(* Bounds of the model.                                                    *)
MaxEvents == 3
MaxTime == 1
MaxStarts == 2
MaxLiveEvents == 2

(* debounce_interval = 0.5 s, in ticks of 0.5 s.                           *)
DebounceInterval == 1

----------------------------------------------------------------------------
(* Strings and os.path                                                     *)

EndsWith(s, suf) ==
    /\ Len(s) >= Len(suf)
    /\ SubSeq(s, Len(s) - Len(suf) + 1, Len(s)) = suf

LowerTok(t) ==
    CASE t = "PNG" -> "png"
      [] t = "A" -> "a"
      [] OTHER -> t

\* str.lower()
Lower(name) == [i \in 1..Len(name) |-> LowerTok(name[i])]

ImageExts == {"png", "jpg", "jpeg", "webp"}
MediaExts == {"mp4", "gif", "webm"}

\* name.endswith(('.png', '.jpg', '.jpeg', '.webp'))
EndsWithImageExt(name) == \E x \in ImageExts : EndsWith(name, <<".", x>>)

\* name.endswith(('.png', '.jpg', '.jpeg', '.webp', '.mp4', '.gif', '.webm'))
EndsWithMonitoredExt(name) == \E x \in ImageExts \cup MediaExts : EndsWith(name, <<".", x>>)

\* src_path.endswith(('.swp', '.tmp', '~'))
EndsWithTransient(name) ==
    \/ EndsWith(name, <<".", "swp">>)
    \/ EndsWith(name, <<".", "tmp">>)
    \/ EndsWith(name, <<"~">>)

Front(p) == SubSeq(p, 1, Len(p) - 1)
Last(p) == p[Len(p)]

\* os.path.basename / os.path.dirname of a path with at least one component
Basename(p) == Last(p)
Dirname(p) == Front(p)

RECURSIVE CommonLen(_, _)
CommonLen(p, q) ==
    IF p # <<>> /\ q # <<>> /\ Head(p) = Head(q)
    THEN 1 + CommonLen(Tail(p), Tail(q))
    ELSE 0

Dot == << <<".">> >>
DotDot == <<"..">>

\* os.path.relpath(p, start): ".." for every component of start that is not
\* shared, then the rest of p; "." when nothing is left
Relpath(p, start) ==
    LET c == CommonLen(p, start)
        ups == [i \in 1..(Len(start) - c) |-> DotDot]
        rest == ups \o SubSeq(p, c + 1, Len(p))
    IN IF rest = <<>> THEN Dot ELSE rest

\* os.path.join of two relative paths
Join(p, q) == p \o q

----------------------------------------------------------------------------
(* The watched tree.  The directory layout is fixed: /out holds the folder *)
(* sub, the symbolic link lnk -> /out/sub, the hidden folder .hid and a    *)
(* folder that is itself named d.png.  Which files exist varies.           *)

Base == << <<"out">> >>

NameA == <<"a", ".", "png">>
NameB == <<"b", ".", "gif">>
NameUp == <<"A", ".", "PNG">>
NameTmp == <<"a", ".", "png", ".", "tmp">>
NameTxt == <<"x", ".", "txt">>
NameH == <<"h", ".", "png">>
NameD == <<"d", ".", "png">>

PathA == Base \o <<NameA>>
PathB == Base \o << <<"sub">>, NameB >>
PathLnkB == Base \o << <<"lnk">>, NameB >>
PathUp == Base \o <<NameUp>>
PathTmp == Base \o <<NameTmp>>
PathTxt == Base \o <<NameTxt>>
PathH == Base \o << <<".", "hid">>, NameH >>
PathD == Base \o <<NameD>>

LinkDir == Base \o << <<"lnk">> >>
LinkTarget == Base \o << <<"sub">> >>

IsPrefix(pre, p) == Len(pre) <= Len(p) /\ SubSeq(p, 1, Len(pre)) = pre

\* os.path.realpath: the symbolic link lnk is replaced by what it points to
Realpath(p) ==
    IF IsPrefix(LinkDir, p)
    THEN LinkTarget \o SubSeq(p, Len(LinkDir) + 1, Len(p))
    ELSE p

\* self.base_path = os.path.realpath(base_path); self.root_name = basename of it
base_path == Realpath(Base)
root_name == <<Basename(base_path)>>

----------------------------------------------------------------------------
(* File records                                                            *)

\* datetime.fromtimestamp(timestamp).strftime("%Y-%m-%d %H:%M:%S")
FormatDate(timestamp) == <<"date", timestamp>>

\* buildMetadata(real_path)[2]: what the extractor reads from the file's bytes
buildMetadata(mtime) == <<"meta", mtime>>

\* the dict both _build_file_info and scan_directory return for one file
FileInfoOf(subfolder, filename, mtime) ==
    [ name |-> filename,
      url |-> IF Len(subfolder) > 0
              THEN << <<"static_gallery">> >> \o subfolder \o <<filename>>
              ELSE << <<"static_gallery">>, filename >>,
      timestamp |-> mtime,
      date |-> FormatDate(mtime),
      metadata |-> IF EndsWithImageExt(Lower(filename)) THEN buildMetadata(mtime) ELSE <<>>,
      type |-> IF EndsWithImageExt(Lower(filename)) THEN "image" ELSE "media" ]

\* _build_file_info(base_path, real_path), given the mtime os.path.getmtime
\* returns; the caller handles the case where getmtime raises
_build_file_info(base, real_path, mtime) ==
    LET rel_dir == Relpath(Dirname(real_path), base)
        filename == Basename(real_path)
        subfolder == IF rel_dir # Dot THEN rel_dir ELSE <<>>
    IN FileInfoOf(subfolder, filename, mtime)

----------------------------------------------------------------------------
(* Events                                                                  *)

EventTypes == {"created", "modified", "deleted", "moved"}

NoPath == <<>>

Event(t, src, dest, isdir) ==
    [event_type |-> t, src_path |-> src, dest_path |-> dest, is_directory |-> isdir]

Patterns == ImageExts \cup MediaExts

\* fnmatch of one path against "*.png", ..., "*.webm", case sensitive
MatchesPatterns(p) == p # NoPath /\ \E x \in Patterns : EndsWith(Last(p), <<".", x>>)

\* PatternMatchingEventHandler.dispatch: the event reaches on_any_event when
\* its source or its destination matches one of the patterns
Dispatched(e) == MatchesPatterns(e.src_path) \/ MatchesPatterns(e.dest_path)

\* the events the event source delivers in the model
Moves == { <<PathA, PathB>>, <<PathA, PathTmp>>, <<PathTxt, PathA>>, <<PathTmp, PathA>> }

RawEvents ==
    {Event(t, PathA, NoPath, FALSE) : t \in {"created", "modified", "deleted"}}
    \cup {Event("created", p, NoPath, FALSE) : p \in {PathB, PathLnkB, PathTmp, PathTxt, PathUp}}
    \cup {Event("moved", m[1], m[2], FALSE) : m \in Moves}
    \cup {Event("created", PathD, NoPath, TRUE)}

EventSet == {e \in RawEvents : Dispatched(e)}

\* the handler's locals, from the (resolved) path of a file
RelPathOf(real_path) == Relpath(real_path, base_path)

FolderKeyOf(rel_path) ==
    LET folder_part == Dirname(rel_path)
    IN IF folder_part = <<>> \/ folder_part = Dot
       THEN root_name
       ELSE Join(root_name, folder_part)

FilenameOf(rel_path) == Basename(rel_path)

\* event_key = (event.event_type, real_path)
EventKey(e) == <<e.event_type, Realpath(e.src_path)>>

----------------------------------------------------------------------------
(* Dictionaries                                                            *)

EmptyDict == <<>>

Put(d, k, v) == [x \in DOMAIN d \cup {k} |-> IF x = k THEN v ELSE d[x]]

\* a pop that removes nothing
PopNothing(d, k) == d

\* dict.pop(k, None)
Pop(d, k) == [x \in DOMAIN d \ {k} |-> d[x]]

\* folders.setdefault(folder_key, {})[filename] = entry
SetEntry(folders, folder_key, filename, entry) ==
    LET old == IF folder_key \in DOMAIN folders THEN folders[folder_key] ELSE EmptyDict
    IN Put(folders, folder_key, Put(old, filename, entry))

HasEntry(folders, folder_key, filename) ==
    folder_key \in DOMAIN folders /\ filename \in DOMAIN folders[folder_key]

\* the entries of a change set, each with its folder key and filename
EntriesOf(folders) ==
    UNION { { [folder |-> k, filename |-> f, entry |-> folders[k][f]] : f \in DOMAIN folders[k] } :
            k \in DOMAIN folders }

Tags(folders) == { x.entry.tag : x \in EntriesOf(folders) }

\* {"action": "remove"} and {"action": action, **file_info}; the tag (event
\* number, side) is history: it names the event that recorded the entry
RemoveEntry(n) == [action |-> "remove", info |-> <<>>, tag |-> <<n, "src">>]
InfoEntry(action, file_info, n) == [action |-> action, info |-> <<file_info>>, tag |-> <<n, "dst">>]

\* the tags a write of (folder_key, filename) leaves live
LiveAfter(lv, folders, folder_key, filename, entry) ==
    (IF HasEntry(folders, folder_key, filename)
     THEN lv \ {folders[folder_key][filename].tag}
     ELSE lv) \cup {entry.tag}

----------------------------------------------------------------------------
(* GalleryEventHandler                                                     *)

Cur == hist[Len(hist)]

MarkLate(what) == IF stopped THEN late \cup {what} ELSE late

\* a duplicate test that also drops the event that arrives exactly
\* debounce_interval later
IsDuplicateInclusive(processed, event_key, current_time) ==
    /\ event_key \in DOMAIN processed
    /\ current_time - processed[event_key] <= DebounceInterval

\* lines 76-79: the event repeats one with the same key processed less than
\* debounce_interval ago
IsDuplicate(processed, event_key, current_time) ==
    /\ event_key \in DOMAIN processed
    /\ current_time - processed[event_key] < DebounceInterval

\* os.path.getmtime of a file last written by the n-th change seen since the
\* initial scan (the scan saw mtime 1); 0 stands for getmtime raising
MtimeAt(n) == n + 1

\* a handler that restarts the debounce timer also for a duplicate
OnAnyEventDuplicateRearms(e) ==
    /\ pc = "idle"
    /\ observer.state = "running"
    /\ Len(hist) < MaxEvents
    /\ LET n == Len(hist) + 1
           real_path == Realpath(e.src_path)
           rel_path == RelPathOf(real_path)
           folder_key == FolderKeyOf(rel_path)
           filename == FilenameOf(rel_path)
           Log(outcome) == Append(hist, [event |-> e, time |-> now,
                                         outcome |-> outcome, built |-> "none"])
           Discard(outcome) ==
               /\ hist' = Log(outcome)
               /\ UNCHANGED <<file_index, pending_changes, processed_events, pc, live, late>>
       IN IF e.is_directory THEN Discard("directory") /\ UNCHANGED <<debounce_timer, timers>>
          ELSE IF EndsWithTransient(Last(e.src_path))
               THEN Discard("transient") /\ UNCHANGED <<debounce_timer, timers>>
          ELSE IF IsDuplicate(processed_events, EventKey(e), now)
               THEN /\ Discard("duplicate")
                    /\ timers' = Append(IF debounce_timer # 0
                                        THEN [timers EXCEPT ![debounce_timer] =
                                                 IF @.state = "waiting"
                                                 THEN [@ EXCEPT !.state = "cancelled"] ELSE @]
                                        ELSE timers,
                                        [state |-> "waiting", armedAt |-> now, result |-> "none"])
                    /\ debounce_timer' = Len(timers) + 1
          ELSE /\ processed_events' = Put(processed_events, EventKey(e), now)
               /\ hist' = Log("applied")
               /\ UNCHANGED <<debounce_timer, timers>>
               /\ IF e.event_type \in {"deleted", "moved"}
                  THEN /\ file_index' = Pop(file_index, rel_path)
                       /\ pending_changes' =
                              SetEntry(pending_changes, folder_key, filename, RemoveEntry(n))
                       /\ live' = LiveAfter(live, pending_changes, folder_key, filename,
                                            RemoveEntry(n))
                       /\ late' = MarkLate("index")
                       /\ pc' = IF e.event_type = "deleted" THEN "debounce" ELSE "build"
                  ELSE /\ pc' = "build"
                       /\ UNCHANGED <<file_index, pending_changes, live, late>>
    /\ UNCHANGED <<now, sent, thread, workers, observer, stopped>>
    /\ UNCHANGED scanVars

\* on_any_event, lines 64-98: the checks that discard the event, the
\* bookkeeping of processed_events and, for 'deleted' and 'moved', the removal
\* of the source
OnAnyEvent(e) ==
    /\ pc = "idle"
    /\ observer.state = "running"
    /\ Len(hist) < MaxEvents
    /\ LET n == Len(hist) + 1
           real_path == Realpath(e.src_path)
           rel_path == RelPathOf(real_path)
           folder_key == FolderKeyOf(rel_path)
           filename == FilenameOf(rel_path)
           Log(outcome) == Append(hist, [event |-> e, time |-> now,
                                         outcome |-> outcome, built |-> "none"])
           Discard(outcome) ==
               /\ hist' = Log(outcome)
               /\ UNCHANGED <<file_index, pending_changes, processed_events, pc, live, late>>
       IN IF e.is_directory THEN Discard("directory")
          ELSE IF EndsWithTransient(Last(e.src_path)) THEN Discard("transient")
          ELSE IF IsDuplicate(processed_events, EventKey(e), now) THEN Discard("duplicate")
          ELSE /\ processed_events' = Put(processed_events, EventKey(e), now)
               /\ hist' = Log("applied")
               /\ IF e.event_type \in {"deleted", "moved"}
                  THEN /\ file_index' = Pop(file_index, rel_path)
                       /\ pending_changes' =
                              SetEntry(pending_changes, folder_key, filename, RemoveEntry(n))
                       /\ live' = LiveAfter(live, pending_changes, folder_key, filename,
                                            RemoveEntry(n))
                       /\ late' = MarkLate("index")
                       /\ pc' = IF e.event_type = "deleted" THEN "debounce" ELSE "build"
                  ELSE /\ pc' = "build"
                       /\ UNCHANGED <<file_index, pending_changes, live, late>>
    /\ UNCHANGED <<debounce_timer, timers, now, sent, thread, workers, observer, stopped>>
    /\ UNCHANGED scanVars

\* the path whose record the handler builds, and the action it records
BuildTarget(e) ==
    IF e.event_type = "moved" THEN Realpath(e.dest_path) ELSE Realpath(e.src_path)

BuildAction(e) ==
    IF e.event_type = "moved" \/ e.event_type = "created" THEN "create" ELSE "update"

\* a handler that, when the record of a created or modified file cannot be
\* built, drops the file's old record
BuildRecordDropsOnFailure ==
    /\ pc = "build"
    /\ LET e == Cur.event
           n == Len(hist)
           rel == RelPathOf(BuildTarget(e))
       IN \E mtime \in {0, MtimeAt(n)} :
            IF mtime = 0
            THEN /\ hist' = [hist EXCEPT ![n].built = "failed"]
                 /\ file_index' = IF e.event_type = "moved" THEN file_index
                                  ELSE Pop(file_index, rel)
                 /\ UNCHANGED <<pending_changes, live, late>>
            ELSE LET file_info == _build_file_info(base_path, BuildTarget(e), mtime)
                     entry == InfoEntry(BuildAction(e), file_info, n)
                 IN /\ file_index' = Put(file_index, rel, file_info)
                    /\ pending_changes' =
                           SetEntry(pending_changes, FolderKeyOf(rel), FilenameOf(rel), entry)
                    /\ live' = LiveAfter(live, pending_changes, FolderKeyOf(rel),
                                         FilenameOf(rel), entry)
                    /\ late' = MarkLate("index")
                    /\ hist' = [hist EXCEPT ![n].built = "ok"]
    /\ pc' = "debounce"
    /\ UNCHANGED <<processed_events, debounce_timer, timers, now, sent,
                   thread, workers, observer, stopped>>
    /\ UNCHANGED scanVars

\* a handler that, when the record of the destination of a move cannot be
\* built, takes the recorded removal of the source back
BuildRecordUndoesRemoval ==
    /\ pc = "build"
    /\ LET e == Cur.event
           n == Len(hist)
           rel == RelPathOf(BuildTarget(e))
           src == RelPathOf(Realpath(e.src_path))
       IN \E mtime \in {0, MtimeAt(n)} :
            IF mtime = 0
            THEN /\ hist' = [hist EXCEPT ![n].built = "failed"]
                 /\ pending_changes' =
                        IF e.event_type = "moved" /\ FolderKeyOf(src) \in DOMAIN pending_changes
                        THEN [pending_changes EXCEPT ![FolderKeyOf(src)] =
                                 Pop(@, FilenameOf(src))]
                        ELSE pending_changes
                 /\ UNCHANGED <<file_index, live, late>>
            ELSE LET file_info == _build_file_info(base_path, BuildTarget(e), mtime)
                     entry == InfoEntry(BuildAction(e), file_info, n)
                 IN /\ file_index' = Put(file_index, rel, file_info)
                    /\ pending_changes' =
                           SetEntry(pending_changes, FolderKeyOf(rel), FilenameOf(rel), entry)
                    /\ live' = LiveAfter(live, pending_changes, FolderKeyOf(rel),
                                         FilenameOf(rel), entry)
                    /\ late' = MarkLate("index")
                    /\ hist' = [hist EXCEPT ![n].built = "ok"]
    /\ pc' = "debounce"
    /\ UNCHANGED <<processed_events, debounce_timer, timers, now, sent,
                   thread, workers, observer, stopped>>
    /\ UNCHANGED scanVars

\* on_any_event, lines 100-105 and 107-113: build the record; on success store
\* it in file_index and record the action; on failure only log
BuildRecord ==
    /\ pc = "build"
    /\ LET e == Cur.event
           n == Len(hist)
           rel == RelPathOf(BuildTarget(e))
       IN \E mtime \in {0, MtimeAt(n)} :
            IF mtime = 0
            THEN /\ hist' = [hist EXCEPT ![n].built = "failed"]
                 /\ UNCHANGED <<file_index, pending_changes, live, late>>
            ELSE LET file_info == _build_file_info(base_path, BuildTarget(e), mtime)
                     entry == InfoEntry(BuildAction(e), file_info, n)
                 IN /\ file_index' = Put(file_index, rel, file_info)
                    /\ pending_changes' =
                           SetEntry(pending_changes, FolderKeyOf(rel), FilenameOf(rel), entry)
                    /\ live' = LiveAfter(live, pending_changes, FolderKeyOf(rel),
                                         FilenameOf(rel), entry)
                    /\ late' = MarkLate("index")
                    /\ hist' = [hist EXCEPT ![n].built = "ok"]
    /\ pc' = "debounce"
    /\ UNCHANGED <<processed_events, debounce_timer, timers, now, sent,
                   thread, workers, observer, stopped>>
    /\ UNCHANGED scanVars

\* threading.Timer: is_alive() and cancel()
IsAlive(t) == t.state \notin {"cancelled", "done"}
Cancel(t) == IF t.state = "waiting" THEN [t EXCEPT !.state = "cancelled"] ELSE t

\* debounce_event, lines 122-123: the timers after the cancel
CancelPrevious(tm, handle) ==
    IF handle # 0 /\ IsAlive(tm[handle])
    THEN [tm EXCEPT ![handle] = Cancel(tm[handle])]
    ELSE tm

\* on_any_event, lines 115-117, and debounce_event: cancel the previous timer
\* and start a new one
DebounceEvent ==
    /\ pc = "debounce"
    /\ Cur.event.event_type \in EventTypes
    /\ timers' = Append(CancelPrevious(timers, debounce_timer),
                        [state |-> "waiting", armedAt |-> now, result |-> "none"])
    /\ debounce_timer' = Len(timers) + 1
    /\ pc' = "idle"
    /\ UNCHANGED <<file_index, pending_changes, processed_events, now, hist, sent, live>>
    /\ UNCHANGED monitorVars
    /\ UNCHANGED scanVars

\* a callback that goes on to the send whatever pending_changes holds
TimerFireAlwaysSend(i) ==
    /\ timers[i].state = "waiting"
    /\ now >= timers[i].armedAt + DebounceInterval
    /\ timers' = [timers EXCEPT ![i].state = "send"]
    /\ UNCHANGED <<file_index, pending_changes, processed_events, debounce_timer, now,
                   pc, hist, sent, live>>
    /\ UNCHANGED monitorVars
    /\ UNCHANGED scanVars

\* the timer thread wakes up after debounce_interval, finds itself not
\* cancelled and enters rescan_and_send_changes, line 130
TimerFire(i) ==
    /\ timers[i].state = "waiting"
    /\ now >= timers[i].armedAt + DebounceInterval
    /\ timers' = [timers EXCEPT ![i].state =
                     IF DOMAIN pending_changes = {} THEN "reset" ELSE "send"]
    /\ UNCHANGED <<file_index, pending_changes, processed_events, debounce_timer, now,
                   pc, hist, sent, live>>
    /\ UNCHANGED monitorVars
    /\ UNCHANGED scanVars

\* rescan_and_send_changes, lines 134-138: send_sync of the pending changes,
\* which returns or raises; a raise is caught and logged
SendChanges(i) ==
    /\ timers[i].state = "send"
    /\ \E ok \in BOOLEAN :
         /\ sent' = Append(sent, [payload |-> pending_changes, ok |-> ok, by |-> i])
         /\ timers' = [timers EXCEPT ![i].state = "clear",
                                     ![i].result = IF ok THEN "ok" ELSE "failed"]
    /\ late' = MarkLate("send")
    /\ UNCHANGED <<file_index, pending_changes, processed_events, debounce_timer, now,
                   pc, hist, live>>
    /\ UNCHANGED <<thread, workers, observer, stopped>>
    /\ UNCHANGED scanVars

\* a flush that keeps the batch when the send failed
PendingAfterFlushOnSuccess(folders, result) ==
    IF result = "ok" THEN EmptyDict ELSE folders

\* line 140, in the finally block, whatever the send did:
\* self.pending_changes = {"folders": {}}
PendingAfterFlush(folders, result) == EmptyDict

ClearChanges(i) ==
    /\ timers[i].state = "clear"
    /\ pending_changes' = PendingAfterFlush(pending_changes, timers[i].result)
    /\ timers' = [timers EXCEPT ![i].state = "reset"]
    /\ UNCHANGED <<file_index, processed_events, debounce_timer, now, pc, hist, sent, live>>
    /\ UNCHANGED monitorVars
    /\ UNCHANGED scanVars

\* a callback that returns without resetting the handle
ReturnWithoutReset(i) ==
    /\ timers[i].state = "reset"
    /\ timers' = [timers EXCEPT ![i].state = "done"]
    /\ UNCHANGED <<file_index, pending_changes, processed_events, debounce_timer, now,
                   pc, hist, sent, live>>
    /\ UNCHANGED monitorVars
    /\ UNCHANGED scanVars

\* lines 131 and 141: self.debounce_timer = None, and the callback returns
ResetTimer(i) ==
    /\ timers[i].state = "reset"
    /\ debounce_timer' = 0
    /\ timers' = [timers EXCEPT ![i].state = "done"]
    /\ UNCHANGED <<file_index, pending_changes, processed_events, now, pc, hist, sent, live>>
    /\ UNCHANGED monitorVars
    /\ UNCHANGED scanVars

\* time passes
Tick ==
    /\ now < MaxTime
    /\ now' = now + 1
    /\ UNCHANGED <<file_index, pending_changes, processed_events, debounce_timer, timers,
                   pc, hist, sent, live>>
    /\ UNCHANGED monitorVars
    /\ UNCHANGED scanVars

----------------------------------------------------------------------------
(* folder_scanner._scan_for_images and the seeding of file_index           *)

TreeFiles == {PathA, PathB, PathUp, PathTxt, PathH}

\* the folders os.scandir finds in a folder: entry.is_dir() follows the link
SubdirNames(dir_path) ==
    IF Realpath(dir_path) = Base
    THEN { <<"sub">>, <<"lnk">>, <<".", "hid">>, NameD }
    ELSE {}

\* the regular files os.scandir finds in a folder of tree t
FileNames(t, dir_path) ==
    { Basename(f) : f \in {g \in TreeFiles : t[g] > 0 /\ Dirname(g) = Realpath(dir_path)} }

\* name.startswith(".")
StartsWithDot(name) == name[1] = "."

\* the union of dictionaries with disjoint keys
Merge(ds) ==
    [k \in UNION {DOMAIN d : d \in ds} |-> (CHOOSE d \in ds : k \in DOMAIN d)[k]]

\* scan_directory(dir_path, relative_path), lines 12-68: folders_data of the
\* folder and of the folders below it
RECURSIVE scan_directory(_, _, _, _, _, _)
scan_directory(t, full_base_path, label, include_subfolders, dir_path, relative_path) ==
    LET below == { scan_directory(t, full_base_path, label, include_subfolders,
                                  dir_path \o <<d>>, Join(relative_path, <<d>>)) :
                   d \in {x \in SubdirNames(dir_path) :
                            include_subfolders /\ ~StartsWithDot(x)} }
        rel_path == Relpath(dir_path, full_base_path)
        subfolder == IF rel_path # Dot THEN rel_path ELSE <<>>
        folder_content ==
            [name \in {x \in FileNames(t, dir_path) : EndsWithMonitoredExt(Lower(x))} |->
                FileInfoOf(subfolder, name, t[Realpath(dir_path \o <<name>>)])]
        folder_key == IF relative_path # <<>> THEN Join(label, relative_path) ELSE label
    IN IF DOMAIN folder_content # {}
       THEN Put(Merge(below), folder_key, folder_content)
       ELSE Merge(below)

_scan_for_images(t, full_base_path, label, include_subfolders) ==
    scan_directory(t, full_base_path, label, include_subfolders, full_base_path, <<>>)

\* FileSystemMonitor.__init__, lines 157-163: file_index after the initial scan
SeedIndex(t) ==
    LET folder_name == <<Basename(Base)>>
        folders_data == _scan_for_images(t, Base, folder_name, TRUE)
        KeyOf(folder, filename) ==
            LET rel_dir == Relpath(folder, folder_name)
            IN IF rel_dir # Dot THEN Join(rel_dir, <<filename>>) ELSE <<filename>>
    IN Merge({ [k \in {KeyOf(folder, f) : f \in DOMAIN folders_data[folder]} |->
                   folders_data[folder][Basename(k)]] :
               folder \in DOMAIN folders_data })

\* the path of every file the scan discovered: the source paths of the
\* 'created' events of the replay
Discovered(t) ==
    LET folder_name == <<Basename(Base)>>
        folders_data == _scan_for_images(t, Base, folder_name, TRUE)
    IN UNION { { Base \o SubSeq(folder, 2, Len(folder)) \o <<f>> : f \in DOMAIN folders_data[folder] } :
               folder \in DOMAIN folders_data }

\* the tree the handler specifications start from: /out/a.png alone
StartTree == [f \in TreeFiles |-> IF f = PathA THEN 1 ELSE 0]

----------------------------------------------------------------------------
(* The round trip: the scan against a replay of 'created' events           *)

\* FileSystemMonitor.__init__ on the tree: seed file_index, and list the
\* files whose 'created' events the replay feeds
ScanTree ==
    /\ replayed.phase = "init"
    /\ scanned' = SeedIndex(tree)
    /\ todo' = Discovered(tree)
    /\ replayed' = [replayed EXCEPT !.phase = "replay"]
    /\ UNCHANGED tree
    /\ UNCHANGED handlerVars
    /\ UNCHANGED monitorVars

\* on_any_event, lines 64-113, for a 'created' event on src_path, run to its
\* end on the replay's own (initially empty) index
ReplayCreated(src_path) ==
    /\ replayed.phase = "replay"
    /\ src_path \in todo
    /\ todo' = todo \ {src_path}
    /\ LET e == Event("created", src_path, NoPath, FALSE)
           real_path == Realpath(src_path)
           mtime == tree[real_path]
       IN IF \/ EndsWithTransient(Last(src_path))
             \/ IsDuplicate(replayed.processed, EventKey(e), now)
          THEN UNCHANGED replayed
          ELSE replayed' =
                 [replayed EXCEPT
                    !.processed = Put(@, EventKey(e), now),
                    !.index = IF mtime = 0 THEN @
                              ELSE Put(@, RelPathOf(real_path),
                                       _build_file_info(base_path, real_path, mtime))]
    /\ UNCHANGED <<tree, scanned>>
    /\ UNCHANGED handlerVars
    /\ UNCHANGED monitorVars

----------------------------------------------------------------------------
(* FileSystemMonitor                                                       *)

\* lines 152-155: the observer __init__ creates for a value of the flag
ObserverFor(use_polling_observer) ==
    [ use_polling_observer |-> use_polling_observer,
      kind |-> IF use_polling_observer THEN "native" ELSE "polling",
      state |-> "new",
      started |-> FALSE,
      handlers |-> 0 ]

\* threading.Thread.is_alive() of the worker a handle names
WorkerAlive(w) == workers[w] # "dead"

AliveWorkers == {w \in DOMAIN workers : WorkerAlive(w)}

\* start_monitoring, lines 166-173
StartMonitoring ==
    /\ IF thread = 0 \/ ~WorkerAlive(thread)
       THEN /\ Len(workers) < MaxStarts
            /\ workers' = Append(workers, "started")
            /\ thread' = Len(workers) + 1
       ELSE UNCHANGED <<thread, workers>>
    /\ UNCHANGED <<observer, stopped, late>>
    /\ UNCHANGED handlerVars
    /\ UNCHANGED scanVars

\* _start_observer_thread, lines 175-181: schedule the handler, start the
\* observer (a thread, which starts once only) and loop for ever
WorkerRun(w) ==
    /\ workers[w] = "started"
    /\ IF observer.started
       THEN /\ workers' = [workers EXCEPT ![w] = "dead"]
            /\ observer' = [observer EXCEPT !.handlers = 1]
       ELSE /\ workers' = [workers EXCEPT ![w] = "looping"]
            /\ observer' = [observer EXCEPT
                              !.handlers = 1,
                              !.started = TRUE,
                              !.state = IF @ = "new" THEN "running" ELSE @]
    /\ UNCHANGED <<thread, stopped, late>>
    /\ UNCHANGED handlerVars
    /\ UNCHANGED scanVars

\* stop_monitoring, lines 185-194: observer.stop() and observer.join(), which
\* returns once the call of on_any_event in progress has returned
StopMonitoring ==
    /\ IF thread # 0 /\ WorkerAlive(thread)
       THEN /\ pc = "idle"
            /\ observer' = [observer EXCEPT !.state = "stopped", !.handlers = 0]
            /\ thread' = 0
            /\ stopped' = TRUE
       ELSE UNCHANGED <<thread, observer, stopped>>
    /\ UNCHANGED <<workers, late>>
    /\ UNCHANGED handlerVars
    /\ UNCHANGED scanVars

----------------------------------------------------------------------------
(* Specifications                                                          *)

NoReplay == [index |-> EmptyDict, processed |-> EmptyDict, phase |-> "off"]

\* GalleryEventHandler.__init__ and the seeding of file_index
InitHandler ==
    /\ file_index = SeedIndex(StartTree)
    /\ pending_changes = EmptyDict
    /\ processed_events = EmptyDict
    /\ debounce_timer = 0
    /\ timers = <<>>
    /\ now = 0
    /\ pc = "idle"
    /\ hist = <<>>
    /\ sent = <<>>
    /\ live = {}

InitNoScan ==
    /\ tree = StartTree
    /\ scanned = EmptyDict
    /\ replayed = NoReplay
    /\ todo = {}

\* the handler on a monitor that was constructed with the default flag and
\* started, its worker looping
Init ==
    /\ InitHandler
    /\ thread = 1
    /\ workers = <<"looping">>
    /\ observer = [ObserverFor(FALSE) EXCEPT !.state = "running", !.started = TRUE,
                                             !.handlers = 1]
    /\ stopped = FALSE
    /\ late = {}
    /\ InitNoScan

HandlerNext ==
    \/ BuildRecord
    \/ DebounceEvent
    \/ \E i \in DOMAIN timers : TimerFire(i)
    \/ \E i \in DOMAIN timers : SendChanges(i)
    \/ \E i \in DOMAIN timers : ClearChanges(i)
    \/ \E i \in DOMAIN timers : ResetTimer(i)
    \/ Tick

Next ==
    \/ \E e \in EventSet : OnAnyEvent(e)
    \/ HandlerNext

Spec == Init /\ [][Next]_vars

\* the monitor from its construction, with either value of the flag
MonitorEvents == {Event("created", PathA, NoPath, FALSE), Event("deleted", PathA, NoPath, FALSE)}

InitMonitor ==
    /\ InitHandler
    /\ thread = 0
    /\ workers = <<>>
    /\ observer \in {ObserverFor(flag) : flag \in BOOLEAN}
    /\ stopped = FALSE
    /\ late = {}
    /\ InitNoScan

NextMonitor ==
    \/ StartMonitoring
    \/ \E w \in DOMAIN workers : WorkerRun(w)
    \/ StopMonitoring
    \/ \E e \in MonitorEvents : OnAnyEvent(e)
    \/ HandlerNext

SpecMonitor == InitMonitor /\ [][NextMonitor]_vars

\* the round trip, over every tree
Trees == [TreeFiles -> {0, 1}]

InitScan ==
    /\ InitHandler
    /\ thread = 0
    /\ workers = <<>>
    /\ observer = ObserverFor(FALSE)
    /\ stopped = FALSE
    /\ late = {}
    /\ tree \in Trees
    /\ scanned = EmptyDict
    /\ replayed = [index |-> EmptyDict, processed |-> EmptyDict, phase |-> "init"]
    /\ todo = {}

NextScan ==
    \/ ScanTree
    \/ \E p \in todo : ReplayCreated(p)
    \/ Tick

SpecScan == InitScan /\ [][NextScan]_vars

\* threading.Timer(self.debounce_interval, ...): time passes while a started
\* timer waits for its interval to elapse
TimerWait ==
    /\ \E i \in DOMAIN timers :
          timers[i].state = "waiting" /\ now < timers[i].armedAt + DebounceInterval
    /\ now' = now + 1
    /\ UNCHANGED <<file_index, pending_changes, processed_events, debounce_timer, timers,
                   pc, hist, sent, live>>
    /\ UNCHANGED monitorVars
    /\ UNCHANGED scanVars

\* time passes only while a timer waits
NextLive ==
    \/ \E e \in MonitorEvents : Len(hist) < MaxLiveEvents /\ OnAnyEvent(e)
    \/ BuildRecord
    \/ DebounceEvent
    \/ \E i \in DOMAIN timers : TimerFire(i)
    \/ \E i \in DOMAIN timers : SendChanges(i)
    \/ \E i \in DOMAIN timers : ClearChanges(i)
    \/ \E i \in DOMAIN timers : ResetTimer(i)
    \/ TimerWait

\* the watcher thread and the timer threads are scheduled: a call of
\* on_any_event in progress goes on, a timer's interval elapses, and a timer
\* that is due or in its callback takes its next step
Fairness ==
    /\ WF_vars(BuildRecord)
    /\ WF_vars(DebounceEvent)
    /\ WF_vars(TimerWait)
    /\ \A i \in 1..MaxEvents :
          /\ WF_vars(i \in DOMAIN timers /\ TimerFire(i))
          /\ WF_vars(i \in DOMAIN timers /\ SendChanges(i))
          /\ WF_vars(i \in DOMAIN timers /\ ClearChanges(i))
          /\ WF_vars(i \in DOMAIN timers /\ ResetTimer(i))

SpecLive == Init /\ [][NextLive]_vars /\ Fairness

----------------------------------------------------------------------------
(* Vocabulary of the properties                                            *)

\* the key of file_index, the folder key and the filename an event's source
\* and destination resolve to
SrcRel(e) == RelPathOf(Realpath(e.src_path))
DestRel(e) == RelPathOf(Realpath(e.dest_path))

\* events on_any_event does not discard by their kind or their suffix
IsFileEvent(e) == ~e.is_directory /\ ~EndsWithTransient(Last(e.src_path))

\* on_any_event has returned from the call for the last event of hist
Returned == hist # <<>> /\ pc = "idle"

\* the change with a given tag is in a change set, under a folder and filename
TagAt(folders, tag, rel) ==
    /\ HasEntry(folders, FolderKeyOf(rel), FilenameOf(rel))
    /\ folders[FolderKeyOf(rel)][FilenameOf(rel)].tag = tag

IsCreateOrUpdate(x) == x.entry.action \in {"create", "update"}

\* entries x and y stem from created/modified events on one path that
\* arrived within one debounce interval
SameBurst(x, y) ==
    LET n == x.entry.tag[1]
        m == y.entry.tag[1]
    IN /\ x.folder = y.folder /\ x.filename = y.filename
       /\ hist[n].event.event_type \in {"created", "modified"}
       /\ hist[m].event.event_type \in {"created", "modified"}
       /\ hist[n].time - hist[m].time < DebounceInterval
       /\ hist[m].time - hist[n].time < DebounceInterval

\* the payloads that reached the Notifier
Delivered == {i \in DOMAIN sent : sent[i].ok}

----------------------------------------------------------------------------
(* C1: for created/modified events on one path that all arrive within one  *)
(* debounce interval, no two payloads delivered to the Notifier carry a    *)
(* create-or-update action for that path, and a delivered action is not    *)
(* older than a record that a later event of the burst has built and that  *)
(* is neither delivered nor pending any more.                              *)
C1_OneFlushPerBurst ==
    /\ \A i, j \in Delivered :
         \A x \in EntriesOf(sent[i].payload), y \in EntriesOf(sent[j].payload) :
            (i # j /\ IsCreateOrUpdate(x) /\ IsCreateOrUpdate(y)) => ~SameBurst(x, y)
    /\ \A i \in Delivered :
         \A x \in EntriesOf(sent[i].payload) :
            IsCreateOrUpdate(x) =>
               \A m \in DOMAIN hist :
                  LET n == x.entry.tag[1]
                  IN ~ /\ m > n
                       /\ hist[n].event.event_type \in {"created", "modified"}
                       /\ hist[m].event.event_type \in {"created", "modified"}
                       /\ SrcRel(hist[m].event) = SrcRel(hist[n].event)
                       /\ hist[m].built = "ok"
                       /\ hist[m].time - hist[n].time < DebounceInterval
                       /\ \A k \in Delivered :
                            ~TagAt(sent[k].payload, <<m, "dst">>, SrcRel(hist[m].event))
                       /\ ~TagAt(pending_changes, <<m, "dst">>, SrcRel(hist[m].event))

(* C2: once on_any_event has returned from a 'deleted' event for a file    *)
(* (not a directory, no transient suffix), the file's relative path is no  *)
(* key of file_index.                                                      *)
C2_DeletedIsAbsent ==
    (Returned /\ Cur.event.event_type = "deleted" /\ IsFileEvent(Cur.event))
        => SrcRel(Cur.event) \notin DOMAIN file_index

(* C3: once on_any_event has returned from a 'moved' event from A to B, A  *)
(* is no key of file_index and, when the record of B was built, B maps to  *)
(* that record; and a flushed payload holds the remove of A together with  *)
(* the create of B: never one without the other.                           *)
C3_MovedSourceAndDestination ==
    /\ (Returned /\ Cur.event.event_type = "moved" /\ IsFileEvent(Cur.event)) =>
          /\ SrcRel(Cur.event) \notin DOMAIN file_index
          /\ Cur.built = "ok" =>
                /\ DestRel(Cur.event) \in DOMAIN file_index
                /\ file_index[DestRel(Cur.event)] =
                      _build_file_info(base_path, Realpath(Cur.event.dest_path),
                                       MtimeAt(Len(hist)))
    /\ \A n \in DOMAIN hist, i \in DOMAIN sent :
          (hist[n].event.event_type = "moved" /\ hist[n].built = "ok") =>
             (TagAt(sent[i].payload, <<n, "src">>, SrcRel(hist[n].event))
                <=> TagAt(sent[i].payload, <<n, "dst">>, DestRel(hist[n].event)))

(* C4: when every send succeeds, every recorded change that no later event *)
(* replaced is still pending or was delivered, and no change is delivered  *)
(* in two payloads.                                                        *)
C4_NoChangeLostOrRepeated ==
    (\A i \in DOMAIN sent : sent[i].ok) =>
       /\ \A tag \in live :
            \/ tag \in Tags(pending_changes)
            \/ \E i \in DOMAIN sent : tag \in Tags(sent[i].payload)
       /\ \A i, j \in DOMAIN sent :
            i # j => Tags(sent[i].payload) \cap Tags(sent[j].payload) = {}

(* C5: an event for a file is dropped as a duplicate exactly when an event *)
(* with the same (event_type, resolved source path) was applied less than  *)
(* debounce_interval before it; otherwise it is applied; and               *)
(* processed_events holds, per key, the time of the last applied event.    *)
LastApplied(i) ==
    LET same == {j \in 1..(i - 1) : /\ hist[j].outcome = "applied"
                                     /\ EventKey(hist[j].event) = EventKey(hist[i].event)}
    IN IF same = {} THEN 0 ELSE CHOOSE j \in same : \A k \in same : k <= j

C5_DedupByKey ==
    /\ \A i \in DOMAIN hist :
         IsFileEvent(hist[i].event) =>
            IF /\ LastApplied(i) # 0
               /\ hist[i].time - hist[LastApplied(i)].time < DebounceInterval
            THEN hist[i].outcome = "duplicate"
            ELSE hist[i].outcome = "applied"
    /\ \A key \in DOMAIN processed_events :
         \E i \in DOMAIN hist :
            /\ hist[i].outcome = "applied"
            /\ EventKey(hist[i].event) = key
            /\ processed_events[key] = hist[i].time
            /\ \A j \in DOMAIN hist :
                 (j > i /\ EventKey(hist[j].event) = key) => hist[j].outcome # "applied"

\* a duplicate that came through the symbolic link was dropped, and the same
\* event was applied again one debounce interval later
C5_Witness ==
    \E i, j, k \in DOMAIN hist :
       /\ i < j /\ j < k
       /\ EventKey(hist[i].event) = EventKey(hist[j].event)
       /\ EventKey(hist[j].event) = EventKey(hist[k].event)
       /\ hist[i].event.src_path # hist[j].event.src_path
       /\ hist[i].outcome = "applied"
       /\ hist[j].outcome = "duplicate"
       /\ hist[k].outcome = "applied"

(* C6: when the replay has fed a 'created' event for every file the scan   *)
(* discovered, its file_index equals the one the scan seeded.              *)
C6_ScanEqualsReplay ==
    (replayed.phase = "replay" /\ todo = {}) => replayed.index = scanned

(* C7: once stop_monitoring has returned, no debounce timer is waiting or  *)
(* running, and nothing is sent to the Notifier or written to file_index   *)
(* any more.                                                               *)
C7_QuietAfterStop ==
    /\ stopped => late = {}
    /\ stopped => \A i \in DOMAIN timers : ~IsAlive(timers[i])

(* C8: at most one worker thread is alive and at most one subscription is  *)
(* scheduled, whatever sequence of start_monitoring and stop_monitoring    *)
(* was called.                                                             *)
C8_OneWorkerOneSubscription ==
    /\ Cardinality(AliveWorkers) <= 1
    /\ observer.handlers <= 1

(* C9: every key of file_index and every filename of pending_changes and   *)
(* of a payload has a monitored extension and no transient suffix.         *)
IsMonitoredName(name) == EndsWithMonitoredExt(Lower(name)) /\ ~EndsWithTransient(name)

C9_OnlyMonitoredFiles ==
    /\ \A key \in DOMAIN file_index : IsMonitoredName(Last(key))
    /\ \A x \in EntriesOf(pending_changes) : IsMonitoredName(x.filename)
    /\ \A i \in DOMAIN sent : \A x \in EntriesOf(sent[i].payload) : IsMonitoredName(x.filename)

(* C10: a flush whose send raised goes on through its finally block: the   *)
(* timer thread is never left at the send, once it is past the clear no    *)
(* change of the failed batch is pending, and once it has returned         *)
(* debounce_timer does not name it any more.                               *)
FailedBatch(i) == UNION {Tags(sent[k].payload) : k \in {j \in DOMAIN sent : sent[j].by = i /\ ~sent[j].ok}}

C10_FailedFlushStillClears ==
    \A i \in DOMAIN timers :
       timers[i].result = "failed" =>
          /\ timers[i].state \in {"clear", "reset", "done"}
          /\ timers[i].state \in {"reset", "done"} =>
                FailedBatch(i) \cap Tags(pending_changes) = {}
          /\ timers[i].state = "done" => debounce_timer # i

\* a flush failed and returned, and an event that arrived after the failed
\* batch has recorded a change and armed a fresh timer
C10_Witness ==
    \E i \in DOMAIN timers :
       /\ timers[i].result = "failed"
       /\ timers[i].state = "done"
       /\ FailedBatch(i) # {}
       /\ debounce_timer > i
       /\ timers[debounce_timer].state = "waiting"
       /\ Tags(pending_changes) # {}
       /\ pc = "idle"

(* C11: a timer callback that finds pending_changes empty takes the empty  *)
(* branch: it never calls the Notifier, its steps leave file_index,        *)
(* pending_changes and the payloads sent untouched, and its last step      *)
(* sets debounce_timer to None.                                            *)
EmptyBranch(i) == timers[i].state \in {"reset", "done"} /\ timers[i].result = "none"

C11_EmptyFlushIsNoOp ==
    /\ [](\A i \in DOMAIN timers :
            EmptyBranch(i) => \A k \in DOMAIN sent : sent[k].by # i)
    /\ [][\A i \in DOMAIN timers :
            /\ (timers[i].state = "waiting" /\ timers'[i].state \in {"send", "reset"}) =>
                  /\ DOMAIN pending_changes = {} => timers'[i].state = "reset"
                  /\ UNCHANGED <<file_index, pending_changes, sent, debounce_timer>>
            /\ (EmptyBranch(i) /\ timers[i].state = "reset" /\ timers'[i].state = "done") =>
                  /\ UNCHANGED <<file_index, pending_changes, sent>>
                  /\ debounce_timer' = 0]_vars

\* an event whose record could not be built armed a timer, which fired on an
\* empty pending_changes and returned
C11_Witness ==
    \E i \in DOMAIN timers :
       /\ timers[i].state = "done"
       /\ timers[i].result = "none"
       /\ hist # <<>>
       /\ debounce_timer = 0
       /\ sent = <<>>

(* C12: the observer is the backend the flag names: the polling backend    *)
(* with use_polling_observer = true, the native backend with false.        *)
C12_FlagSelectsBackend ==
    observer.kind = IF observer.use_polling_observer THEN "polling" ELSE "native"

(* C13: at most one debounce timer is outstanding, that is waiting or      *)
(* running its callback.                                                   *)
Outstanding == {i \in DOMAIN timers : IsAlive(timers[i])}

C13_OneTimerOutstanding == Cardinality(Outstanding) <= 1

(* C14: a send to the Notifier never happens less than debounce_interval   *)
(* after an accepted event from whose handling on_any_event has returned,  *)
(* the timer re-armed.                                                     *)
Handled(n) ==
    /\ n \in DOMAIN hist
    /\ hist[n].outcome = "applied"
    /\ (n < Len(hist) \/ pc = "idle")

C14_TrueDebounce ==
    [][sent' # sent =>
          \A n \in DOMAIN hist : Handled(n) => now - hist[n].time >= DebounceInterval]_vars

(* C15: the watcher thread is never between the first mutation of          *)
(* on_any_event and the return of debounce_event while a timer thread is   *)
(* inside rescan_and_send_changes.                                         *)
InCallback == {i \in DOMAIN timers : timers[i].state \in {"send", "clear", "reset"}}

C15_MutualExclusion == ~(pc # "idle" /\ InCallback # {})

(* C16: the handling of a 'created' or 'modified' event whose record       *)
(* cannot be built changes neither file_index nor pending_changes in any   *)
(* of its steps, and goes on to debounce_event instead of raising.         *)
BuildFails ==
    /\ pc = "build"
    /\ hist'[Len(hist)].built = "failed"

C16_FailedBuildLeavesIndex ==
    [][/\ (/\ hist' # hist
           /\ hist'[Len(hist')].event.event_type \in {"created", "modified"}
           /\ hist'[Len(hist')].built # "ok")
          => UNCHANGED <<file_index, pending_changes>>
       /\ (BuildFails /\ Cur.event.event_type \in {"created", "modified"})
          => pc' = "debounce"]_vars

\* on_any_event has returned from a 'modified' event whose record could not
\* be built: the file still has the record of the scan and nothing is pending
C16_Witness ==
    /\ Returned
    /\ Cur.event.event_type = "modified"
    /\ Cur.built = "failed"
    /\ SrcRel(Cur.event) \in DOMAIN file_index
    /\ file_index = SeedIndex(StartTree)
    /\ pending_changes = EmptyDict
    /\ debounce_timer # 0

(* C17: a 'moved' event removes its source from file_index and records a   *)
(* remove for it; when the record of the destination cannot be built, that *)
(* step changes neither file_index nor pending_changes and goes on to      *)
(* debounce_event, and the source is absent when on_any_event returns.     *)
MovedApplied(n) ==
    /\ hist[n].event.event_type = "moved"
    /\ hist[n].outcome = "applied"

C17_FailedMoveKeepsRemoval ==
    /\ []((Returned /\ MovedApplied(Len(hist)) /\ Cur.built = "failed")
             => SrcRel(Cur.event) \notin DOMAIN file_index)
    /\ [][/\ (/\ Len(hist') = Len(hist) + 1
              /\ hist'[Len(hist')].event.event_type = "moved"
              /\ hist'[Len(hist')].outcome = "applied")
             => LET src == SrcRel(hist'[Len(hist')].event)
                IN /\ src \notin DOMAIN file_index'
                   /\ HasEntry(pending_changes', FolderKeyOf(src), FilenameOf(src))
                   /\ pending_changes'[FolderKeyOf(src)][FilenameOf(src)].action = "remove"
          /\ (BuildFails /\ Cur.event.event_type = "moved")
             => /\ UNCHANGED <<file_index, pending_changes>>
                /\ pc' = "debounce"]_vars

\* on_any_event has returned from a move of a.png whose destination record
\* could not be built: a.png is gone, its remove is pending, the destination
\* is neither indexed nor pending
C17_Witness ==
    /\ Returned
    /\ MovedApplied(Len(hist))
    /\ Cur.built = "failed"
    /\ Cur.event.src_path = PathA
    /\ SrcRel(Cur.event) \notin DOMAIN file_index
    /\ DestRel(Cur.event) \notin DOMAIN file_index
    /\ TagAt(pending_changes, <<Len(hist), "src">>, SrcRel(Cur.event))
    /\ ~HasEntry(pending_changes, FolderKeyOf(DestRel(Cur.event)), FilenameOf(DestRel(Cur.event)))

(* C18: once an event has been accepted, the watcher eventually is         *)
(* quiescent: on_any_event has returned, pending_changes is empty, the     *)
(* timer handle is None and no timer is waiting or in its callback.        *)
Accepted == \E n \in DOMAIN hist : hist[n].outcome = "applied"

Quiescent ==
    /\ pc = "idle"
    /\ pending_changes = EmptyDict
    /\ debounce_timer = 0
    /\ \A i \in DOMAIN timers : ~IsAlive(timers[i])

RelOfEntry(x) == Join(Tail(x.folder), <<x.filename>>)

C19_PendingAgreesWithIndex ==
    pc = "idle" =>
       \A x \in EntriesOf(pending_changes) :
          IF x.entry.action = "remove"
          THEN RelOfEntry(x) \notin DOMAIN file_index
          ELSE /\ RelOfEntry(x) \in DOMAIN file_index
               /\ file_index[RelOfEntry(x)] = x.entry.info[1]

\* a remove and a create are pending, in different folders, and a timer
\* callback has cleared pending_changes before
C19_Witness ==
    /\ pc = "idle"
    /\ \E x, y \in EntriesOf(pending_changes) :
          /\ x.entry.action = "remove"
          /\ y.entry.action = "create"
          /\ x.folder # y.folder
    /\ \E i \in DOMAIN timers : timers[i].state = "done" /\ timers[i].result # "none"

(* C20: the step of on_any_event that discards an event (a directory       *)
(* event, a transient source suffix, a duplicate) returns at once and      *)
(* leaves file_index, pending_changes, processed_events, the timer handle  *)
(* and every timer as they were.                                           *)
Discards ==
    /\ Len(hist') = Len(hist) + 1
    /\ hist'[Len(hist')].outcome \in {"directory", "transient", "duplicate"}

C20_DiscardHasNoEffect ==
    [][Discards =>
          /\ UNCHANGED <<file_index, pending_changes, processed_events, debounce_timer, timers>>
          /\ pc' = "idle"]_vars

\* a duplicate and a directory event were discarded while a change was
\* pending and its timer waiting, armed by the event the duplicate repeats
C20_Witness ==
    /\ Returned
    /\ \E n, m \in DOMAIN hist : hist[n].outcome = "duplicate" /\ hist[m].outcome = "directory"
    /\ Cur.outcome = "duplicate"
    /\ pending_changes # EmptyDict
    /\ debounce_timer # 0
    /\ timers[debounce_timer].state = "waiting"
    /\ Len(timers) = 1

====
